---- MODULE Spec2Model ----
(***************************************************************************)
(* Model of damask_parse/readers.py: the solver-log aggregator             *)
(* (read_spectral_stdout over parse_increment and                          *)
(* parse_increment_iteration) and the geometry reader (read_geom).         *)
(*                                                                         *)
(* Text is represented by what the regular expressions of the code find in *)
(* it.  An iteration chunk is the set of metric names of its               *)
(* "error <name> = ..." lines; an increment chunk is a record of its       *)
(* warning blocks, whether it holds "increment N converged", the groups of *)
(* its "Time ...: Increment a/b-c/d of load case n" line and the iteration *)
(* chunks that precede each "=" rule.  Chunks are taken to hold the two    *)
(* mandatory tensors in each iteration and the position line whenever they *)
(* are converged.                                                          *)
(***************************************************************************)
EXTENDS Integers, Sequences, FiniteSets, TLC

\* ------------------------------------------------------------------------
\* Bounds of the explored inputs
\* ------------------------------------------------------------------------
\* Increment chunks, iteration chunks and warning blocks of a log.
MaxChunks == 3
MaxIters == 3
MaxWarn == 2
\* Grid points along an axis, body lines that are not plain, orientations.
MaxGrid == 2
MaxOdd == 1
MaxOri == 2

VARIABLES
    pc,               \* "loop", "returned" or "failed"
    error,            \* exception that ended the call, "none" otherwise
    log,              \* inc_split[1:], the chunks the loop has been through
    dg_arr,
    pk_arr,
    inc_idx,
    inc_pos_dat,
    err_keys,
    converge_errors,
    warnings,
    gpc,              \* "grid", "lines", "sections", "returned" or "failed"
    gerror,           \* exception that ended read_geom, "none" otherwise
    num_header,
    grid,
    lines,            \* the lines of the file the loop has been through
    grain_idx_2d,
    voxel_grain_idx,
    grain_phase_label_idx,
    grain_orientation_idx,
    orientations

logVars == <<pc, error, log, dg_arr, pk_arr, inc_idx, inc_pos_dat, err_keys,
             converge_errors, warnings>>

geomVars == <<gpc, gerror, num_header, grid, lines, grain_idx_2d, voxel_grain_idx,
              grain_phase_label_idx, grain_orientation_idx, orientations>>

vars == <<logVars, geomVars>>

\* ------------------------------------------------------------------------
\* Python values
\* ------------------------------------------------------------------------
\* None is the empty tuple, any other value v is <<v>>.
None == << >>
Some(v) == <<v>>
Val(o) == o[1]

Range(s) == {s[i] : i \in 1..Len(s)}

RECURSIVE Repeat(_, _)
\* [x] * n
Repeat(x, n) == IF n <= 0 THEN << >> ELSE <<x>> \o Repeat(x, n - 1)

\* ------------------------------------------------------------------------
\* parse_increment_iteration
\* ------------------------------------------------------------------------
Metrics == {"divergence", "stress BC"}

\* 'error_' + name.strip().replace(' ', '_')
ErrKey(m) ==
    CASE m = "divergence" -> "error_divergence"
      [] m = "stress BC" -> "error_stress_BC"

TensorKeys == {"deformation_gradient_aim", "piola_kirchhoff_stress"}

\* j.startswith('error_')
StartsWithError(j) == j \in {ErrKey(m) : m \in Metrics}

\* The dict returned for one iteration chunk: the two tensors and one entry
\* per error line found.  Numbers are carried as the name of their field.
parse_increment_iteration(inc_iter_str) ==
    [k \in TensorKeys \cup {ErrKey(m) : m \in inc_iter_str} |->
        IF k \in TensorKeys THEN k
        ELSE [value |-> "value", unit |-> "unit", tol |-> "tol",
              relative |-> "relative"]]

\* ------------------------------------------------------------------------
\* parse_increment
\* ------------------------------------------------------------------------
ErrFields == {"value", "tol", "relative"}

\* re.split(r'={75}', inc_str): the iteration chunks, then the text after the
\* last rule.
IterSplit(inc_str) == inc_str.iters \o <<{}>>

\* inc_iter_split[:-1]
AllButLast(s) == SubSeq(s, 1, Len(s) - 1)

\* num_iters taken as the number of split segments, the trailing one counted.
NumIters_All(inc_iter_split) == Len(inc_iter_split)

\* num_iters
NumIters(inc_iter_split) == Len(inc_iter_split) - 1

\* d[j]: None stands for the KeyError of a missing key.
Lookup(d, j) == IF j \in DOMAIN d THEN Some(d[j]) ELSE None

\* err_keys as set at idx == 0 of the iteration loop; None when the loop
\* body never runs.
IncErrKeys(iterations) ==
    IF iterations = << >> THEN None
    ELSE Some({j \in DOMAIN parse_increment_iteration(iterations[1]) :
                 StartsWithError(j)})

\* The exception the iteration loop and the conversion loop after it raise,
\* "none" when they run through.
IncError(iterations) ==
    LET keys == IncErrKeys(iterations)
    IN  IF keys = None THEN "TypeError"
        ELSE IF \E idx \in 1..Len(iterations) :
                    \E j \in Val(keys) :
                        Lookup(parse_increment_iteration(iterations[idx]), j) = None
             THEN "KeyError"
             ELSE "none"

parse_increment(inc_str) ==
    IF ~inc_str.converged
    THEN [raised |-> "none", converged |-> FALSE, warnings |-> inc_str.warnings]
    ELSE
        LET inc_iter_split == IterSplit(inc_str)
            iterations == AllButLast(inc_iter_split)
            parsed == [idx \in 1..Len(iterations) |->
                          parse_increment_iteration(iterations[idx])]
            keys == IncErrKeys(iterations)
        IN  IF IncError(iterations) # "none"
            THEN [raised |-> IncError(iterations)]
            ELSE [raised |-> "none",
                  converged |-> TRUE,
                  inc_number |-> inc_str.pos.inc_number,
                  inc_time |-> inc_str.pos.inc_time,
                  inc_cut_back |-> <<1, inc_str.pos.cut_back_den>>,
                  inc_load_case |-> inc_str.pos.inc_load_case,
                  deformation_gradient_aim |->
                      [idx \in 1..Len(iterations) |->
                          parsed[idx]["deformation_gradient_aim"]],
                  piola_kirchhoff_stress |->
                      [idx \in 1..Len(iterations) |->
                          parsed[idx]["piola_kirchhoff_stress"]],
                  num_iters |-> NumIters(inc_iter_split),
                  errors |->
                      [j \in Val(keys) |->
                          [k \in ErrFields |->
                              [idx \in 1..Len(iterations) |-> parsed[idx][j][k]]]]]

\* ------------------------------------------------------------------------
\* Solver logs
\* ------------------------------------------------------------------------
RECURSIVE SeqsUpTo(_, _)
\* The sequences over S of length at most n.
SeqsUpTo(S, n) ==
    IF n = 0 THEN {<< >>}
    ELSE LET shorter == SeqsUpTo(S, n - 1)
         IN  shorter \cup {Append(s, x) : s \in {t \in shorter : Len(t) = n - 1}, x \in S}

\* The iteration chunks of an increment chunk, by the most there may be.
IterSeqs == [n \in 0..MaxIters |-> SeqsUpTo(SUBSET Metrics, n)]

\* The warning blocks of an increment chunk, by the most there may be: the
\* k-th block of a chunk carries code k.
WarnSeqs ==
    [w \in 0..MaxWarn |->
        {[k \in 1..n |-> [code |-> k, message |-> "message"]] : n \in 0..w}]

\* The groups of the "Time ...s: Increment a/b-c/d of load case n" line.
Positions ==
    {[inc_time |-> 1, inc_number |-> 1, cut_back_den |-> 1, inc_load_case |-> 1],
     [inc_time |-> 2, inc_number |-> 2, cut_back_den |-> 2, inc_load_case |-> 2]}

\* Increment chunks with at most n iteration chunks and w warning blocks.  The
\* position line and the iteration chunks of a chunk without
\* "increment N converged" are never looked at.
IncChunks(n, w) ==
    [converged : {TRUE}, warnings : WarnSeqs[w], pos : Positions, iters : IterSeqs[n]]
    \cup [converged : {FALSE}, warnings : WarnSeqs[w],
          iters : {<< >>, <<Metrics>>} \cap IterSeqs[n]]

RECURSIVE TotalIters(_)
\* The iteration chunks of a log.
TotalIters(l) == IF l = << >> THEN 0 ELSE Len(l[1].iters) + TotalIters(Tail(l))

RECURSIVE TotalWarn(_)
\* The warning blocks of a log.
TotalWarn(l) == IF l = << >> THEN 0 ELSE Len(l[1].warnings) + TotalWarn(Tail(l))

PosKeys == {"inc_number", "inc_time", "inc_cut_back", "inc_load_case"}

\* ------------------------------------------------------------------------
\* read_spectral_stdout
\* ------------------------------------------------------------------------
LogVarsAt(p) ==
    /\ pc = p
    /\ error = "none"
    /\ log = << >>
    /\ dg_arr = << >>
    /\ pk_arr = << >>
    /\ inc_idx = << >>
    /\ inc_pos_dat = [k \in PosKeys |-> << >>]
    /\ err_keys = None
    /\ converge_errors = None
    /\ warnings = << >>

Raise(exc, i) ==
    /\ UNCHANGED geomVars
    /\ pc' = "failed"
    /\ error' = exc
    /\ log' = Append(log, i)
    /\ UNCHANGED <<dg_arr, pk_arr, inc_idx, inc_pos_dat, err_keys,
                   converge_errors, warnings>>

\* err_keys after the `if idx == 0` block of the loop body.
RunErrKeys(idx, parsed_inc) ==
    IF idx = 0 THEN Some({j \in DOMAIN parsed_inc.errors : StartsWithError(j)})
    ELSE err_keys

\* converge_errors after the `if idx == 0` block of the loop body.
RunConvergeErrors(idx, parsed_inc) ==
    IF idx = 0
    THEN Some([j \in Val(RunErrKeys(idx, parsed_inc)) |->
                  [k \in ErrFields |-> << >>]])
    ELSE converge_errors

\* The entries tagged with the increment number in place of the position.
IncIdxEntries_Number(idx, parsed_inc) ==
    Repeat(parsed_inc.inc_number, parsed_inc.num_iters)

\* [idx] * parsed_inc['num_iters']
IncIdxEntries(idx, parsed_inc) == Repeat(idx, parsed_inc.num_iters)

\* parsed_inc.get(j, <empty sequences>): a missing key contributes nothing.
IncrementErrors_Default(parsed_inc, j) ==
    IF j \in DOMAIN parsed_inc.errors THEN Some(parsed_inc.errors[j])
    ELSE Some([k \in ErrFields |-> << >>])

\* parsed_inc[j] in the loop over err_keys: None stands for the KeyError.
IncrementErrors(parsed_inc, j) == Lookup(parsed_inc.errors, j)

\* The position values inserted at the front of the sequences.
AppendPos_Front(dat, parsed_inc) == [k \in PosKeys |-> <<parsed_inc[k]>> \o dat[k]]

\* inc_pos_dat after the loop over the four position keys.
AppendPos(dat, parsed_inc) == [k \in PosKeys |-> Append(dat[k], parsed_inc[k])]

\* One pass of `for idx, i in enumerate(inc_split[1:])`.
Increment(i) ==
    /\ pc = "loop"
    /\ Len(log) < MaxChunks
    /\ UNCHANGED geomVars
    /\ LET idx == Len(log)
           parsed_inc == parse_increment(i)
       IN  IF parsed_inc.raised # "none"
           THEN Raise(parsed_inc.raised, i)
           ELSE IF parsed_inc.converged
           THEN LET keys == RunErrKeys(idx, parsed_inc)
                    errs == RunConvergeErrors(idx, parsed_inc)
                IN  IF keys = None
                    THEN Raise("TypeError", i)
                    ELSE IF \E j \in Val(keys) : IncrementErrors(parsed_inc, j) = None
                    THEN Raise("KeyError", i)
                    ELSE /\ inc_idx' = inc_idx \o IncIdxEntries(idx, parsed_inc)
                         /\ err_keys' = keys
                         /\ dg_arr' = dg_arr \o parsed_inc.deformation_gradient_aim
                         /\ pk_arr' = pk_arr \o parsed_inc.piola_kirchhoff_stress
                         /\ converge_errors' =
                                Some([j \in Val(keys) |->
                                    [k \in ErrFields |->
                                        Val(errs)[j][k]
                                            \o Val(IncrementErrors(parsed_inc, j))[k]]])
                         /\ inc_pos_dat' = AppendPos(inc_pos_dat, parsed_inc)
                         /\ log' = Append(log, i)
                         /\ UNCHANGED <<pc, error, warnings>>
           ELSE /\ warnings' = warnings \o parsed_inc.warnings
                /\ log' = Append(log, i)
                /\ UNCHANGED <<pc, error, dg_arr, pk_arr, inc_idx, inc_pos_dat,
                               err_keys, converge_errors>>

\* The code after the loop: the conversions to arrays and the return.
Finish ==
    /\ pc = "loop"
    /\ IF err_keys = None
       THEN /\ pc' = "failed"
            /\ error' = "TypeError"
       ELSE /\ pc' = "returned"
            /\ error' = "none"
    /\ UNCHANGED <<log, dg_arr, pk_arr, inc_idx, inc_pos_dat, err_keys,
                   converge_errors, warnings>>
    /\ UNCHANGED geomVars

\* The dict returned by read_spectral_stdout.
out ==
    [k \in {"deformation_gradient_aim", "piola_kirchhoff_stress", "increment_idx",
            "warnings"} \cup Val(err_keys) \cup PosKeys |->
        CASE k = "deformation_gradient_aim" -> dg_arr
          [] k = "piola_kirchhoff_stress" -> pk_arr
          [] k = "increment_idx" -> inc_idx
          [] k = "warnings" -> warnings
          [] k \in PosKeys -> inc_pos_dat[k]
          [] OTHER -> Val(converge_errors)[k]]

\* ------------------------------------------------------------------------
\* Geometry files
\* ------------------------------------------------------------------------
\* The groups of the "grid a <i> b <j> c <k>" line.
Grids == {<<a, b, c>> : a \in 1..MaxGrid, b \in 1..MaxGrid, c \in 1..MaxGrid}

\* A header line; its tokens are words.
HeaderLine == [header |-> TRUE, tokens |-> << >>]

\* The body line of a region of grain 1: gx tokens 1.
PlainLine(gx) == [header |-> FALSE, tokens |-> [c \in 1..gx |-> 1]]

\* The body lines of a file that are not plain.
OddLines(ls, gx) == Cardinality({k \in 1..Len(ls) : ~ls[k].header /\ ls[k] # PlainLine(gx)})

\* Body lines for a grid of gx points along x: the plain line and, when odd,
\* every line of tokens 1 and 2, none up to one more than gx of them.
BodyLines(gx, odd) ==
    IF odd THEN {[header |-> FALSE, tokens |-> t] : t \in SeqsUpTo({1, 2}, gx + 1)}
    ELSE {PlainLine(gx)}

\* What parse_microstructure may return for the <microstructure> section:
\* the phase and texture index of each grain, for up to `grains` grains.
Microstructures(indices, grains) ==
    {[phase_idx |-> [g \in 1..Len(t) |-> 0], texture_idx |-> t] :
        t \in {r \in SeqsUpTo(indices, grains) : Len(r) >= 1}}

\* What parse_texture_gauss may return for the <texture> section, for up to
\* n orientations.
Textures(n) ==
    {[euler_angles |-> [o \in 1..k |-> "angles"],
      euler_angle_labels |-> "labels"] : k \in 1..n}

\* None and every member of S.
Optional(S) == {None} \cup {Some(x) : x \in S}

\* get_num_header_lines: the integer that opens the file, the number of
\* header lines that follow the first line.
NumHeaders == {1, 2}

\* ------------------------------------------------------------------------
\* numpy
\* ------------------------------------------------------------------------
Min(S) == CHOOSE x \in S : \A y \in S : x <= y
Max(S) == CHOOSE x \in S : \A y \in S : x >= y

\* np.zeros((rows, cols), dtype=int)
Zeros2(rows, cols) == [r \in 0..(rows - 1) |-> [c \in 0..(cols - 1) |-> 0]]

\* a.ravel() of a (rows, cols) array, in C order.
Ravel2(a, rows, cols) ==
    [f \in 0..(rows * cols - 1) |-> a[f \div cols][f % cols]]

\* a.reshape((d0, d1, d2)) of a (rows, cols) array.
Reshape3(a, rows, cols, d0, d1, d2) ==
    LET flat == Ravel2(a, rows, cols)
    IN  [i \in 0..(d0 - 1) |-> [j \in 0..(d1 - 1) |-> [k \in 0..(d2 - 1) |->
            flat[(i * d1 + j) * d2 + k]]]]

\* a.swapaxes(0, 2) of a (d0, d1, d2) array.
SwapAxes02(a, d0, d1, d2) ==
    [k \in 0..(d2 - 1) |-> [j \in 0..(d1 - 1) |-> [i \in 0..(d0 - 1) |->
        a[i][j][k]]]]

\* a -= 1 on a three-dimensional array.
Decrement3(a) ==
    [i \in DOMAIN a |-> [j \in DOMAIN a[i] |-> [k \in DOMAIN a[i][j] |->
        a[i][j][k] - 1]]]

\* ------------------------------------------------------------------------
\* read_geom
\* ------------------------------------------------------------------------
GeomVarsAt(p, nh, g) ==
    /\ gpc = p
    /\ gerror = "none"
    /\ num_header = nh
    /\ grid = g
    /\ lines = << >>
    /\ grain_idx_2d = None
    /\ voxel_grain_idx = None
    /\ grain_phase_label_idx = None
    /\ grain_orientation_idx = None
    /\ orientations = None

GeomRaise(exc) ==
    /\ gpc' = "failed"
    /\ gerror' = exc

\* grid[0], the tokens of a body line.
GridX == IF grid = None THEN 0 ELSE Val(grid)[1]

\* The search for the grid line and the allocation of grain_idx_2d.
ReadGrid ==
    /\ gpc = "grid"
    /\ IF grid = None
       THEN /\ GeomRaise("ValueError")
            /\ UNCHANGED grain_idx_2d
       ELSE /\ gpc' = "lines"
            /\ gerror' = "none"
            /\ grain_idx_2d' = Some(Zeros2(Val(grid)[2] * Val(grid)[3], Val(grid)[1]))
    /\ UNCHANGED <<num_header, grid, lines, voxel_grain_idx, grain_phase_label_idx,
                   grain_orientation_idx, orientations>>
    /\ UNCHANGED logVars

\* grain_idx_2d[arr_idx] = [int(i) for i in ln_split]: the array after the
\* assignment.  A list of one integer is broadcast along the row.
AssignRow(a, arr_idx, ints) ==
    [a EXCEPT ![arr_idx] =
        [c \in DOMAIN a[arr_idx] |-> IF Len(ints) = 1 THEN ints[1] ELSE ints[c + 1]]]

\* The exception of the assignment, "none" when it goes through.
AssignRowError(a, arr_idx, ln) ==
    IF ln.header THEN "ValueError"
    ELSE IF arr_idx \notin DOMAIN a THEN "IndexError"
    ELSE IF Len(ln.tokens) \notin {1, Cardinality(DOMAIN a[arr_idx])} THEN "ValueError"
    ELSE "none"

\* The guard of the assignment in the loop over the lines.
IsBodyLine(ln_idx, nh) == ln_idx > nh

\* The row a body line is written to.
ArrIdx(ln_idx, nh) == ln_idx - (nh + 1)

\* One pass of `for ln_idx, ln in enumerate(lines.splitlines())`.
ReadLine(ln) ==
    /\ gpc = "lines"
    /\ ln.header <=> Len(lines) <= num_header
    /\ LET ln_idx == Len(lines)
           arr_idx == ArrIdx(ln_idx, num_header)
       IN  IF ~IsBodyLine(ln_idx, num_header)
           THEN UNCHANGED <<gpc, gerror, grain_idx_2d>>
           ELSE IF AssignRowError(Val(grain_idx_2d), arr_idx, ln) # "none"
           THEN /\ GeomRaise(AssignRowError(Val(grain_idx_2d), arr_idx, ln))
                /\ UNCHANGED grain_idx_2d
           ELSE /\ grain_idx_2d' = Some(AssignRow(Val(grain_idx_2d), arr_idx, ln.tokens))
                /\ UNCHANGED <<gpc, gerror>>
    /\ lines' = Append(lines, ln)
    /\ UNCHANGED <<num_header, grid, voxel_grain_idx, grain_phase_label_idx,
                   grain_orientation_idx, orientations>>
    /\ UNCHANGED logVars

\* grain_idx_2d.reshape(grid), with neither the reversal nor the swap.
VoxelGrainIdx_NoSwap(a, g) ==
    Decrement3(Reshape3(a, g[2] * g[3], g[1], g[1], g[2], g[3]))

\* grain_idx_2d.reshape(grid[::-1]).swapaxes(0, 2), then `-= 1`.
VoxelGrainIdx(a, g) ==
    Decrement3(SwapAxes02(Reshape3(a, g[2] * g[3], g[1], g[3], g[2], g[1]),
                          g[3], g[2], g[1]))

\* The end of the loop over the lines: the reshape and the decrement.
Reshape ==
    /\ gpc = "lines"
    /\ Len(lines) > num_header
    /\ gpc' = "sections"
    /\ voxel_grain_idx' = Some(VoxelGrainIdx(Val(grain_idx_2d), Val(grid)))
    /\ UNCHANGED <<gerror, num_header, grid, lines, grain_idx_2d,
                   grain_phase_label_idx, grain_orientation_idx, orientations>>
    /\ UNCHANGED logVars

\* The upper end of the check of grain_orientation_idx.
AboveOrientations(idx, n) == idx > n

\* The exception of the check of grain_orientation_idx against orientations,
\* "none" when it passes.
OrientationCheck(goi, ori) ==
    IF goi = None THEN "TypeError"
    ELSE IF Min(Range(Val(goi))) < 0 THEN "ValueError"
    ELSE IF ori = None THEN "TypeError"
    ELSE IF AboveOrientations(Max(Range(Val(goi))), Len(Val(ori).euler_angles))
    THEN "ValueError"
    ELSE "none"

\* The <microstructure> and <texture> sections, the check of the orientation
\* indices and the return.  ms and texture are None when the file has no such
\* section.
ReadSections(ms, texture) ==
    /\ gpc = "sections"
    /\ LET goi == IF ms = None THEN None ELSE Some(Val(ms).texture_idx)
           exc == OrientationCheck(goi, texture)
       IN  /\ grain_phase_label_idx' =
                  IF ms = None THEN None ELSE Some(Val(ms).phase_idx)
           /\ grain_orientation_idx' = goi
           /\ orientations' = texture
           /\ gpc' = IF exc = "none" THEN "returned" ELSE "failed"
           /\ gerror' = exc
    /\ UNCHANGED <<num_header, grid, lines, grain_idx_2d, voxel_grain_idx>>
    /\ UNCHANGED logVars

\* ------------------------------------------------------------------------
\* Specifications
\* ------------------------------------------------------------------------
\* A call of read_spectral_stdout.
Init ==
    /\ LogVarsAt("loop")
    /\ GeomVarsAt("idle", 1, None)

Next ==
    \/ \E i \in IncChunks(MaxIters - TotalIters(log), MaxWarn - TotalWarn(log)) :
            Increment(i)
    \/ Finish

Spec == Init /\ [][Next]_vars

\* A call of read_geom on a file whose body is explored: up to MaxOdd of its
\* body lines are not plain, its sections are absent or those of one grain
\* and one orientation.
InitGeom ==
    /\ LogVarsAt("idle")
    /\ \E nh \in NumHeaders, g \in Optional(Grids) : GeomVarsAt("grid", nh, g)

NextGeom ==
    \/ ReadGrid
    \/ \E ln \in {HeaderLine} : ReadLine(ln)
    \/ \E ln \in BodyLines(GridX, OddLines(lines, GridX) < MaxOdd) : ReadLine(ln)
    \/ Reshape
    \/ \E ms \in Optional(Microstructures({0}, 1)), texture \in Optional(Textures(1)) :
            ReadSections(ms, texture)

SpecGeom == InitGeom /\ [][NextGeom]_vars

\* A call of read_geom on a file whose sections are explored: its body lines
\* are plain, its sections are absent or those of one or two grains and up to
\* MaxOri orientations.
NextGeomSections ==
    \/ ReadGrid
    \/ \E ln \in {HeaderLine} : ReadLine(ln)
    \/ \E ln \in BodyLines(GridX, FALSE) : ReadLine(ln)
    \/ Reshape
    \/ \E ms \in Optional(Microstructures(-1..(MaxOri + 1), 2)),
          texture \in Optional(Textures(MaxOri)) :
            ReadSections(ms, texture)

SpecGeomSections == InitGeom /\ [][NextGeomSections]_vars

\* ------------------------------------------------------------------------
\* Properties of read_spectral_stdout
\* ------------------------------------------------------------------------
\* The call has ended.
Ended == pc \in {"returned", "failed"}

\* The positions (from 1) of the converged chunks of a log.
ConvergedAt(l) == {p \in 1..Len(l) : l[p].converged}

\* The first converged chunk of a log that has one.
FirstConverged(l) == l[Min(ConvergedAt(l))]

\* The converged chunks of a log after the first converged one.
LaterConverged(l) == {l[p] : p \in ConvergedAt(l) \ {Min(ConvergedAt(l))}}

\* The metric names of the first iteration of a chunk that has iterations.
FirstMetrics(c) == c.iters[1]

\* The keys the metric names M are reported under.
ErrKeysOf(M) == {ErrKey(m) : m \in M}

RECURSIVE WarningsOf(_)
\* The warning records of the chunks of a log, in log order.
WarningsOf(l) == IF l = << >> THEN << >> ELSE l[1].warnings \o WarningsOf(Tail(l))

RECURSIVE RetainedIters(_)
\* The iterations of the converged chunks of a log.
RetainedIters(l) ==
    IF l = << >> THEN 0
    ELSE (IF l[1].converged THEN Len(l[1].iters) ELSE 0) + RetainedIters(Tail(l))

\* Every converged chunk has an iteration and every iteration of every
\* converged chunk exposes the metrics of the first iteration of the first
\* converged chunk.
SameMetricsThroughout(l) ==
    \A p \in ConvergedAt(l) :
        /\ l[p].iters # << >>
        /\ \A k \in 1..Len(l[p].iters) :
               l[p].iters[k] = FirstMetrics(FirstConverged(l))

\* The number of entries of s equal to x.
Count(s, x) == Cardinality({k \in 1..Len(s) : s[k] = x})

\* What a converged chunk contributes under position key k.
PosValue(c, k) ==
    CASE k = "inc_number" -> c.pos.inc_number
      [] k = "inc_time" -> c.pos.inc_time
      [] k = "inc_cut_back" -> <<1, c.pos.cut_back_den>>
      [] k = "inc_load_case" -> c.pos.inc_load_case

RECURSIVE PosColumn(_, _)
\* The values under position key k of the converged chunks of a log, in log
\* order.
PosColumn(l, k) ==
    IF l = << >> THEN << >>
    ELSE (IF l[1].converged THEN <<PosValue(l[1], k)>> ELSE << >>)
             \o PosColumn(Tail(l), k)

\* C1: the returned `warnings` list is the concatenation, in log order, of
\* the warning records of every increment chunk, converged or not; its
\* length is the number of warning blocks of the log.
C1_WarningsOfEveryIncrement ==
    pc = "returned" =>
        /\ out["warnings"] = WarningsOf(log)
        /\ Len(out["warnings"]) = TotalWarn(log)

\* C2: for a log of one or more increment chunks none of which converged the
\* call returns, with empty numeric and position arrays and as many warnings
\* as the log has warning blocks.
C2_NonConvergedLogReturns ==
    (Ended /\ Len(log) >= 1 /\ ConvergedAt(log) = {}) =>
        /\ pc = "returned"
        /\ dg_arr = << >>
        /\ pk_arr = << >>
        /\ inc_idx = << >>
        /\ \A k \in PosKeys : inc_pos_dat[k] = << >>
        /\ Len(warnings) = TotalWarn(log)

\* C3: when one or more non-converged chunks precede the first converged
\* chunk of a log whose converged chunks all expose the same metrics, the
\* call returns and its error keys are those of the first iteration of that
\* first converged chunk.
C3_KeysFromFirstConverged ==
    (Ended /\ ConvergedAt(log) # {} /\ Min(ConvergedAt(log)) > 1
        /\ SameMetricsThroughout(log)) =>
        /\ pc = "returned"
        /\ {j \in DOMAIN out : StartsWithError(j)}
               = ErrKeysOf(FirstMetrics(FirstConverged(log)))

\* C4: a call that has not failed has met no converged chunk, after the
\* first converged one, with an iteration that lacks a metric the first one
\* exposed; and a call that returns returns error sequences as long as the
\* tensor sequence.
C4_LackingMetricFails ==
    /\ (pc # "failed" /\ ConvergedAt(log) # {}) =>
           \A c \in LaterConverged(log) : \A k \in 1..Len(c.iters) :
               FirstMetrics(FirstConverged(log)) \subseteq c.iters[k]
    /\ pc = "returned" =>
           \A j \in Val(err_keys) : \A k \in ErrFields :
               Len(out[j][k]) = Len(out["deformation_gradient_aim"])

\* C4 witness: the first converged chunk exposes both metrics, the second
\* only one of them, and the call has failed on the missing key.
C4_Witness ==
    /\ pc = "failed"
    /\ error = "KeyError"
    /\ Len(log) = 2
    /\ log[1].converged /\ log[2].converged
    /\ log[1].iters = <<Metrics>>
    /\ log[2].iters = <<{"divergence"}>>

\* C5: a call that returns has met no converged chunk, after the first
\* converged one, that exposes a metric the first one did not expose.
C5_ExtraMetricFails ==
    pc = "returned" =>
        \A c \in LaterConverged(log) : \A k \in 1..Len(c.iters) :
            c.iters[k] \subseteq FirstMetrics(FirstConverged(log))

\* C6: on return inc_number, inc_time, inc_cut_back and inc_load_case hold
\* one entry per converged chunk, in log order; and a pass of the loop over
\* a non-converged chunk leaves the tensor, index, error and position
\* sequences as they were.
C6_PositionPerConvergedIncrement ==
    /\ [](pc = "returned" => \A k \in PosKeys : out[k] = PosColumn(log, k))
    /\ [][(pc = "loop" /\ log' # log /\ ~log'[Len(log')].converged) =>
            /\ pc' = "loop"
            /\ UNCHANGED <<dg_arr, pk_arr, inc_idx, inc_pos_dat, converge_errors>>]_vars

\* C6 witness: a returned call on a log of two converged chunks with
\* different position lines and, between them, a non-converged chunk that
\* has iteration reports.
C6_Witness ==
    /\ pc = "returned"
    /\ Len(log) = 3
    /\ log[1].converged /\ ~log[2].converged /\ log[3].converged
    /\ log[2].iters # << >>
    /\ log[1].pos # log[3].pos
    /\ Len(out["inc_number"]) = 2

\* C7: on return the value, tol and relative sequences of every error key,
\* deformation_gradient_aim, piola_kirchhoff_stress and increment_idx all
\* have as many entries as the converged chunks have iterations.
C7_ParallelArrays ==
    pc = "returned" =>
        /\ Len(out["deformation_gradient_aim"]) = RetainedIters(log)
        /\ Len(out["piola_kirchhoff_stress"]) = RetainedIters(log)
        /\ Len(out["increment_idx"]) = RetainedIters(log)
        /\ \A j \in {x \in DOMAIN out : StartsWithError(x)} : \A k \in ErrFields :
               Len(out[j][k]) = RetainedIters(log)

\* C7 witness: a returned call on two converged chunks of two and one
\* iterations that expose both metrics.
C7_Witness ==
    /\ pc = "returned"
    /\ Len(log) = 2
    /\ log[1].converged /\ log[2].converged
    /\ Len(log[1].iters) = 2 /\ Len(log[2].iters) = 1
    /\ Val(err_keys) = ErrKeysOf(Metrics)
    /\ Len(out["error_divergence"]["tol"]) = 3

\* C8: on return increment_idx is non-decreasing, each entry is the 0-based
\* position of a chunk of the log, and position p occurs once per iteration
\* of chunk p when it converged and never when it did not.
C8_IncrementIdxIsLogPosition ==
    pc = "returned" =>
        /\ \A a, b \in 1..Len(inc_idx) : a <= b => inc_idx[a] <= inc_idx[b]
        /\ \A a \in 1..Len(inc_idx) : inc_idx[a] \in 0..(Len(log) - 1)
        /\ \A p \in 0..(Len(log) - 1) :
               Count(out["increment_idx"], p) =
                   IF log[p + 1].converged THEN Len(log[p + 1].iters) ELSE 0

\* C8 witness: a returned call on a converged chunk of two iterations, a
\* non-converged chunk and a converged chunk of one iteration whose increment
\* number is 1.
C8_Witness ==
    /\ pc = "returned"
    /\ Len(log) = 3
    /\ log[1].converged /\ ~log[2].converged /\ log[3].converged
    /\ Len(log[1].iters) = 2
    /\ Len(log[3].iters) = 1
    /\ log[3].pos.inc_number = 1
    /\ inc_idx = <<0, 0, 2>>

\* ------------------------------------------------------------------------
\* Properties of read_geom
\* ------------------------------------------------------------------------
\* The body lines of the file: those after the first line and the
\* num_header header lines.
Body == SubSeq(lines, num_header + 2, Len(lines))

\* The body has grid_y * grid_z rows of grid_x integers.
CompleteBody ==
    /\ Len(Body) = Val(grid)[2] * Val(grid)[3]
    /\ \A r \in 1..Len(Body) : Len(Body[r].tokens) = Val(grid)[1]

\* C9: on return every entry i of grain_orientation_idx satisfies
\* 0 <= i < len(orientations): an entry equal to len(orientations) makes the
\* call fail.
C9_OrientationIdxBelowLen ==
    gpc = "returned" =>
        \A i \in Range(Val(grain_orientation_idx)) :
            0 <= i /\ i < Len(Val(orientations).euler_angles)

\* C10: on return from a file with a complete body, voxel_grain_idx has
\* shape (gx, gy, gz) and the token at body row r (from 0) and column c is
\* found, less one, at voxel (x = c, y = r mod gy, z = r div gy).
C10_VoxelLayout ==
    (gpc = "returned" /\ CompleteBody) =>
        LET gx == Val(grid)[1]
            gy == Val(grid)[2]
            gz == Val(grid)[3]
            v == Val(voxel_grain_idx)
        IN  /\ DOMAIN v = 0..(gx - 1)
            /\ \A x \in DOMAIN v :
                   /\ DOMAIN v[x] = 0..(gy - 1)
                   /\ \A y \in DOMAIN v[x] : DOMAIN v[x][y] = 0..(gz - 1)
            /\ \A r \in 0..(gy * gz - 1) : \A c \in 0..(gx - 1) :
                   v[c][r % gy][r \div gy] = Body[r + 1].tokens[c + 1] - 1

\* C10 witness: a returned call on a grid of 2 x 2 x 2 whose body is all 1
\* but for a 2 in the second column of the third row: voxel (1, 0, 1) holds
\* 1, the others 0.
C10_Witness ==
    /\ gpc = "returned"
    /\ grid = Some(<<2, 2, 2>>)
    /\ CompleteBody
    /\ Body[3].tokens = <<1, 2>>
    /\ \A r \in {1, 2, 4} : Body[r].tokens = <<1, 1>>
    /\ \A x, y, z \in 0..1 :
           Val(voxel_grain_idx)[x][y][z] = IF <<x, y, z>> = <<1, 0, 1>> THEN 1 ELSE 0

\* The sections have been read: the call has ended after the reshape.
SectionsRead == gpc \in {"returned", "failed"} /\ voxel_grain_idx # None

\* C11: a file with a grid line and a complete body that has no
\* <microstructure> section or no <texture> section (and no negative
\* orientation index) is read: the call returns, with grain_phase_label_idx
\* and grain_orientation_idx unset when the first is absent and orientations
\* unset when the second is.
C11_SectionsAreOptional ==
    (/\ SectionsRead
     /\ CompleteBody
     /\ grain_orientation_idx = None \/ orientations = None
     /\ grain_orientation_idx # None =>
            \A i \in Range(Val(grain_orientation_idx)) : i >= 0) =>
        /\ gpc = "returned"
        /\ grain_orientation_idx = None => grain_phase_label_idx = None

\* ------------------------------------------------------------------------
\* Properties of parse_increment
\* ------------------------------------------------------------------------
\* The converged chunks the loop has handed to parse_increment.
ParsedConverged == {log[p] : p \in ConvergedAt(log)}

\* An iteration of the chunk after the first exposes a metric set other than
\* that of the first.
KeySetDiffers(c) == \E k \in 2..Len(c.iters) : c.iters[k] # c.iters[1]

\* C12: parse_increment fails on every converged chunk in which an iteration
\* after the first exposes a metric set other than that of the first, be a
\* metric missing or extra.
C12_KeySetMismatchFails ==
    \A c \in ParsedConverged : KeySetDiffers(c) => parse_increment(c).raised # "none"

\* C13: on a converged chunk without an iteration rule parse_increment does
\* not fail: it returns a record with converged true, num_iters 0 and empty
\* tensor sequences.
C13_NoIterationRuleReturns ==
    \A c \in ParsedConverged :
        c.iters = << >> =>
            /\ parse_increment(c).raised = "none"
            /\ parse_increment(c).converged
            /\ parse_increment(c).num_iters = 0
            /\ parse_increment(c).deformation_gradient_aim = << >>
            /\ parse_increment(c).piola_kirchhoff_stress = << >>

\* C14: on return every entry of voxel_grain_idx is a body token less one,
\* hence not negative, and the body has no fewer than grid_y * grid_z rows.
C14_NoUnreadRows ==
    gpc = "returned" =>
        /\ Len(Body) >= Val(grid)[2] * Val(grid)[3]
        /\ \A x \in DOMAIN Val(voxel_grain_idx) :
               \A y \in DOMAIN Val(voxel_grain_idx)[x] :
                   \A z \in DOMAIN Val(voxel_grain_idx)[x][y] :
                       Val(voxel_grain_idx)[x][y][z] >= 0

====
